---------------------------- MODULE Spec2Model ----------------------------
(***************************************************************************)
(* Model of the SmartHomeLLM voice-command relay:                          *)
(*   - OpenAIRealtimeClient (services/openai/realtime.py): the response    *)
(*     consumer _handle_responses with its accumulation buffer, the MQTT   *)
(*     publish, the audio uplink and the connect() orchestration that      *)
(*     main() runs twice on the same client;                               *)
(*   - ResponseParser.process (utils/response_parser.py) with the          *)
(*     validation helpers, OpenAIValidator.fallback and                    *)
(*     MQTTHandler.dispatch, which yields to the loop after each publish;  *)
(*   - the public methods a caller can use on their own: is_valid_json,    *)
(*     validate_payload, validate_or_fallback, and _feed_json_delta.       *)
(*                                                                         *)
(* JSON text is a sequence of JSON lexemes; the Python string is the       *)
(* concatenation of the lexemes.  json.loads is a recursive-descent parse  *)
(* of the lexemes, json.dumps the compact serialisation, and jsonschema's  *)
(* validate is evaluated keyword by keyword on the parsed value.           *)
(***************************************************************************)
EXTENDS Naturals, Sequences, FiniteSets, TLC

(***************************************************************************)
(* Bounds of the model.                                                    *)
(***************************************************************************)
\* content fragments handed to the client: those the consumer receives over
\* the run of main(), both sessions together, or those a caller feeds to
\* _feed_json_delta before the buffer is reset
MaxFrags == 3
\* chunks the microphone captures in one session
MaxChunks == 2
\* calls of ResponseParser.process in progress at once
MaxCalls == 2

(***************************************************************************)
(* JSON lexemes.                                                           *)
(***************************************************************************)
StrTokens ==
    { "\"speak\"", "\"command\"", "\"hi\"", "\"action\"", "\"device\"",
      "\"target\"", "\"turn_on\"", "\"lights\"", "\"red\"", "\"blue\"",
      "\"purple\"", "\"green\"", "\"turn_off\"", "\"set_brightness\"",
      "\"set_temperature\"", "\"lock\"", "\"unlock\"", "\"thermostat\"",
      "\"door\"", "\"fan\"", "\"{\"", "\"{\\\"speak\\\":\\\"hi\\\",\\\"command\\\":null}\"" }

NumTokens == { "1" }

\* the Python str a string lexeme decodes to
StrOf(tok) ==
    CASE tok = "\"speak\""   -> "speak"
      [] tok = "\"command\"" -> "command"
      [] tok = "\"hi\""      -> "hi"
      [] tok = "\"action\""  -> "action"
      [] tok = "\"device\""  -> "device"
      [] tok = "\"target\""  -> "target"
      [] tok = "\"turn_on\"" -> "turn_on"
      [] tok = "\"lights\""  -> "lights"
      [] tok = "\"red\""     -> "red"
      [] tok = "\"blue\""    -> "blue"
      [] tok = "\"purple\""  -> "purple"
      [] tok = "\"green\""   -> "green"
      [] tok = "\"turn_off\"" -> "turn_off"
      [] tok = "\"set_brightness\"" -> "set_brightness"
      [] tok = "\"set_temperature\"" -> "set_temperature"
      [] tok = "\"lock\""    -> "lock"
      [] tok = "\"unlock\""  -> "unlock"
      [] tok = "\"thermostat\"" -> "thermostat"
      [] tok = "\"door\""    -> "door"
      [] tok = "\"fan\""     -> "fan"
      [] tok = "\"{\""       -> "{"
      [] tok = "\"{\\\"speak\\\":\\\"hi\\\",\\\"command\\\":null}\""
                             -> "{\"speak\":\"hi\",\"command\":null}"

\* the string lexeme json.dumps writes for a Python str
TokOf(s) == CHOOSE tok \in StrTokens : StrOf(tok) = s

\* the lexemes of a Python str handed to json.loads
Lex(s) ==
    IF s = "{\"speak\":\"hi\",\"command\":null}"
    THEN << "{", "\"speak\"", ":", "\"hi\"", ",", "\"command\"", ":", "null", "}" >>
    ELSE << s >>

(***************************************************************************)
(* Python values json.loads produces.  Every value has the same shape so   *)
(* that values of different kinds compare: k is the kind, s the text of a  *)
(* str or number, items the members of a dict (key, val) or a list (val).  *)
(***************************************************************************)
PyNone     == [k |-> "null", s |-> "",  items |-> << >>]
PyStr(x)   == [k |-> "str",  s |-> x,   items |-> << >>]
PyNum(x)   == [k |-> "num",  s |-> x,   items |-> << >>]
PyDict(ms) == [k |-> "obj",  s |-> "",  items |-> ms]
PyList(es) == [k |-> "arr",  s |-> "",  items |-> es]

Member(key, val) == [key |-> key, val |-> val]

HasKey(d, key) == \E i \in 1..Len(d.items) : d.items[i].key = key

\* d[key]
Get(d, key) ==
    d.items[CHOOSE i \in 1..Len(d.items) : d.items[i].key = key].val

\* d.get(key)
GetOrNone(d, key) == IF HasKey(d, key) THEN Get(d, key) ELSE PyNone

\* d[key] = val on an insertion-ordered dict: a repeated key keeps its place
DictSet(ms, key, val) ==
    IF \E i \in 1..Len(ms) : ms[i].key = key
    THEN [i \in 1..Len(ms) |-> IF ms[i].key = key THEN Member(key, val) ELSE ms[i]]
    ELSE Append(ms, Member(key, val))

\* bool(v)
Truthy(v) ==
    CASE v.k = "null" -> FALSE
      [] v.k = "str"  -> v.s # ""
      [] v.k = "num"  -> v.s # "0"
      [] OTHER        -> v.items # << >>

(***************************************************************************)
(* json.loads                                                              *)
(***************************************************************************)
ParseFail == [ok |-> FALSE, val |-> PyNone, next |-> 0]
ParseOk(v, n) == [ok |-> TRUE, val |-> v, next |-> n]

RECURSIVE ParseValue(_, _)
RECURSIVE ParseMembers(_, _, _)
RECURSIVE ParseElements(_, _, _)

ParseMembers(t, i, acc) ==
    IF i + 2 > Len(t) \/ t[i] \notin StrTokens \/ t[i + 1] # ":"
    THEN ParseFail
    ELSE LET r == ParseValue(t, i + 2) IN
         IF ~r.ok \/ r.next > Len(t)
         THEN ParseFail
         ELSE LET ms == DictSet(acc, StrOf(t[i]), r.val) IN
              CASE t[r.next] = "}" -> ParseOk(PyDict(ms), r.next + 1)
                [] t[r.next] = "," -> ParseMembers(t, r.next + 1, ms)
                [] OTHER           -> ParseFail

ParseElements(t, i, acc) ==
    LET r == ParseValue(t, i) IN
    IF ~r.ok \/ r.next > Len(t)
    THEN ParseFail
    ELSE LET es == Append(acc, Member("", r.val)) IN
         CASE t[r.next] = "]" -> ParseOk(PyList(es), r.next + 1)
           [] t[r.next] = "," -> ParseElements(t, r.next + 1, es)
           [] OTHER           -> ParseFail

ParseValue(t, i) ==
    IF i > Len(t)
    THEN ParseFail
    ELSE CASE t[i] = "null"      -> ParseOk(PyNone, i + 1)
           [] t[i] \in NumTokens -> ParseOk(PyNum(t[i]), i + 1)
           [] t[i] \in StrTokens -> ParseOk(PyStr(StrOf(t[i])), i + 1)
           [] t[i] = "{" ->
                IF i + 1 <= Len(t) /\ t[i + 1] = "}"
                THEN ParseOk(PyDict(<< >>), i + 2)
                ELSE ParseMembers(t, i + 1, << >>)
           [] t[i] = "[" ->
                IF i + 1 <= Len(t) /\ t[i + 1] = "]"
                THEN ParseOk(PyList(<< >>), i + 2)
                ELSE ParseElements(t, i + 1, << >>)
           [] OTHER -> ParseFail

\* the lexemes of a text: json.loads skips the whitespace between them
Lexemes(t) == SelectSeq(t, LAMBDA x : x # " ")

\* json.loads of the lexemes u
LoadsLexemes(u) ==
    LET r == ParseValue(u, 1) IN
    IF r.ok /\ r.next = Len(u) + 1 THEN r ELSE ParseFail

\* json.loads(text): ok is FALSE where it raises JSONDecodeError
Loads(t) == LoadsLexemes(Lexemes(t))

(***************************************************************************)
(* json.dumps(value, separators=(",", ":"))                                *)
(***************************************************************************)
RECURSIVE Dumps(_)
RECURSIVE DumpItems(_, _, _)

DumpItems(items, i, withKeys) ==
    IF i > Len(items)
    THEN << >>
    ELSE (IF i > 1 THEN << "," >> ELSE << >>)
         \o (IF withKeys THEN << TokOf(items[i].key), ":" >> ELSE << >>)
         \o Dumps(items[i].val)
         \o DumpItems(items, i + 1, withKeys)

Dumps(v) ==
    CASE v.k = "null" -> << "null" >>
      [] v.k = "num"  -> << v.s >>
      [] v.k = "str"  -> << TokOf(v.s) >>
      [] v.k = "obj"  -> << "{" >> \o DumpItems(v.items, 1, TRUE) \o << "}" >>
      [] v.k = "arr"  -> << "[" >> \o DumpItems(v.items, 1, FALSE) \o << "]" >>

(***************************************************************************)
(* smart_home_command_schema, as jsonschema.validate evaluates it          *)
(***************************************************************************)
ActionEnum == { "turn_on", "turn_off", "set_brightness", "set_temperature",
                "lock", "unlock" }
DeviceEnum == { "lights", "thermostat", "door", "fan" }
TargetEnum == { "red", "blue", "green" }

IsEnumStr(v, enum) == v.k = "str" /\ v.s \in enum

\* the array schema with maxItems one too small
TargetArrayValid_short(v) ==
    /\ v.k = "arr"
    /\ \A i \in 1..Len(v.items) : IsEnumStr(v.items[i].val, TargetEnum)
    /\ Len(v.items) >= 1
    /\ Len(v.items) < 3
    /\ \A i, j \in 1..Len(v.items) : i # j => v.items[i].val # v.items[j].val

\* the array schema without uniqueItems
TargetArrayValid_repeats(v) ==
    /\ v.k = "arr"
    /\ \A i \in 1..Len(v.items) : IsEnumStr(v.items[i].val, TargetEnum)
    /\ Len(v.items) >= 1
    /\ Len(v.items) <= 3

\* {"type": "array", "items": enum, "minItems": 1, "maxItems": 3, "uniqueItems": True}
TargetArrayValid(v) ==
    /\ v.k = "arr"
    /\ \A i \in 1..Len(v.items) : IsEnumStr(v.items[i].val, TargetEnum)
    /\ Len(v.items) >= 1
    /\ Len(v.items) <= 3
    /\ \A i, j \in 1..Len(v.items) : i # j => v.items[i].val # v.items[j].val

TargetValid(v) == IsEnumStr(v, TargetEnum) \/ TargetArrayValid(v)

\* the object branch of "command"
CommandObjectValid(v) ==
    /\ v.k = "obj"
    /\ HasKey(v, "action") /\ HasKey(v, "device") /\ HasKey(v, "target")
    /\ IsEnumStr(Get(v, "action"), ActionEnum)
    /\ IsEnumStr(Get(v, "device"), DeviceEnum)
    /\ TargetValid(Get(v, "target"))

CommandValid(v) == CommandObjectValid(v) \/ v.k = "null"

\* validate(instance=v, schema=smart_home_command_schema) does not raise
SchemaValid(v) ==
    /\ v.k = "obj"
    /\ HasKey(v, "speak") /\ HasKey(v, "command")
    /\ Get(v, "speak").k = "str"
    /\ CommandValid(Get(v, "command"))

\* is_valid_command_structure(response_text) -> (is_valid, parsed_or_None)
is_valid_command_structure(text) ==
    LET r == Loads(text) IN
    IF r.ok /\ SchemaValid(r.val)
    THEN [valid |-> TRUE, parsed |-> r.val]
    ELSE [valid |-> FALSE, parsed |-> PyNone]

\* OpenAIValidator.validate(response_text) -> (bool, parsed_json or None)
validate(text) ==
    LET r == Loads(text) IN
    IF ~r.ok
    THEN [valid |-> FALSE, parsed |-> PyNone]
    ELSE IF ~SchemaValid(r.val)
    THEN [valid |-> FALSE, parsed |-> PyNone]
    ELSE [valid |-> TRUE, parsed |-> r.val]

\* get_validation_error_details(response_text): None, or which error it names
get_validation_error_details(text) ==
    LET r == Loads(text) IN
    IF ~r.ok
    THEN "JSON Decode Error"
    ELSE IF ~SchemaValid(r.val)
    THEN "Schema Validation Error"
    ELSE "None"

(***************************************************************************)
(* State.                                                                  *)
(***************************************************************************)
VARIABLES
    json_buffer,     \* OpenAIRealtimeClient._json_buffer
    last_transcript, \* OpenAIRealtimeClient.last_transcript
    client_secret,   \* OpenAIRealtimeClient.client_secret is set
    mainpc,          \* main(): "connect1", "shutdown1", "connect2", "shutdown2",
                     \* "close", "exit"; shutdownN is asyncio.run closing its loop
    conn,            \* connect(): "idle", "opening" while it awaits the handshake
                     \* of the socket, "waiting" from the socket opened to the
                     \* return
    ws,              \* the websocket: "none", "open", "closed_ok", "closed_err"
    lost,            \* the connection under the websocket is gone; FALSE on a
                     \* closed socket whose closing handshake is under way and
                     \* whose connection is still to end
    cancel_requested, \* connect() is past asyncio.wait and has called
                     \* task.cancel() on the task still pending
    producer,        \* task _stream_audio: "none", "running", "done", "failed", "cancelled"
    consumer,        \* task _handle_responses, same values
    consumer_exc,    \* the exception that ended the consumer task, "" if none
    sent,            \* append frames the uplink has sent in this session
    mic,             \* the thread of Microphone.stream: "off", "capturing", "stopped"
    scheduled,       \* the chunks enqueue has handed to loop.call_soon_threadsafe
                     \* whose queue.put_nowait the loop has not run yet, oldest first
    queue,           \* the chunks put in the asyncio.Queue and not yet taken, oldest first
    held,            \* the chunk the uplink has taken and holds in a ws.send
                     \* that is suspended, if any
    uplink_at,       \* where the task _stream_audio is: "none", "start" (created,
                     \* not yet run), "get" (in its loop, at queue.get), "send"
                     \* (suspended in the ws.send of a chunk), "commit" (in the
                     \* ws.send of its finally clause), "end"
    captured,        \* chunks the microphone of this session has handed to enqueue
    frames,          \* the frames written on the websocket in this session, in
                     \* order, each with the task or coroutine that wrote it
    readers,         \* the tasks that have read from the websocket in this session
    commit,          \* input_audio_buffer.commit of the session: "none", "sent", "failed"
    publishing,      \* the consumer is inside publish_payload, a blocking call
    connect_result,  \* how the last connect() ended: "none", "returned", "raised"
    close_called,    \* close() was called since the session opened
    received,        \* content fragments the consumer has received since main()
                     \* started
    turn,            \* fragments received since the last response.done or session
                     \* open; none once the consumer has ended
    resolved,        \* a response.done was handled and no fragment came since
    outcome,         \* what the last event of the session did, if it was a
                     \* response.done
    lastRaw,         \* the buffer that response.done found
    calls,           \* publish_payload invocations of the consumer since the
                     \* previous response.done or the opening of the session
    fallbackCalls,   \* validator.fallback invocations
    p_pc,            \* each call of ResponseParser.process: "idle", "called",
                     \* "dispatching" (suspended in dispatch), "returned", "raised"
    p_raw,           \* its raw_content
    p_transcript,    \* its transcript
    p_dispatcher,    \* ResponseParser.dispatcher
    p_reply,         \* what the fallback model call answered to it
    p_parsed,        \* its parsed
    p_exc,           \* the exception it raised, "" if none
    p_todo,          \* the messages its dispatch has still to publish
    p_fallbacks,     \* the validator.fallback invocations it made
    dispatched,      \* the commands it handed to dispatcher.dispatch
    published,       \* the messages MQTTHandler.dispatch published, in order
    direct,          \* the last step, if a caller's direct call of a public
                     \* function of the client or the validator: what it did
    v_pc,            \* the validators: "idle", or called on a "value" or a "text"
    v_payload,       \* the value whose serialisation was validated
    v_text,          \* the text validated
    v_result,        \* what is_valid_command_structure returned
    v_validate,      \* what OpenAIValidator.validate returned
    v_details        \* what get_validation_error_details returned

clientVars == << json_buffer, last_transcript, client_secret >>
uplinkVars == << mic, scheduled, queue, held, uplink_at, commit, captured,
                frames >>
callVars   == << publishing, connect_result, close_called >>
taskVars   == << mainpc, conn, ws, lost, cancel_requested, producer, consumer,
                 consumer_exc, sent, uplinkVars, callVars, readers >>
turnVars   == << turn, resolved, outcome, lastRaw, calls, received >>
validateVars == << v_pc, v_payload, v_text, v_result, v_validate, v_details >>
procVars == << p_pc, p_raw, p_transcript, p_dispatcher, p_reply, p_parsed,
               p_exc, p_todo, p_fallbacks, dispatched, published >>
parserVars == << procVars, validateVars, direct >>
vars == << clientVars, taskVars, turnVars, fallbackCalls, parserVars >>

\* what a direct call did: the function, its arguments, what it returned,
\* whether it raised, the publish_payload invocations it made
Call(fn, text, payload, transcript, ok, value, raised, pubs) ==
    [fn |-> fn, text |-> text, payload |-> payload, transcript |-> transcript,
     ok |-> ok, value |-> value, raised |-> raised, calls |-> pubs]

NoCall == Call("none", << >>, PyNone, "None", FALSE, PyNone, FALSE, << >>)

(***************************************************************************)
(* Inputs: the content of the frames the realtime endpoint sends.          *)
(***************************************************************************)
FragHead    == << "{", "\"speak\"", ":", "\"hi\"", ",", "\"command\"" >>
FragNull    == << ":", "null", "}" >>
FragInvalid == << "{", "invalid" >>
FragOne     == << ":", "1", "}" >>
FragCommand == << ":", "{", "\"action\"", ":", "\"turn_on\"", ",",
                  "\"device\"", ":", "\"lights\"", ",",
                  "\"target\"", ":", "\"red\"", "}", "}" >>

\* << >> is a frame without "content": msg.get("content", ""); text that is
\* not JSON comes from turns that end early or start late
Fragments ==
    { << >>, FragHead, FragNull, FragOne, FragCommand }

RECURSIVE Flatten(_)
Flatten(fs) == IF fs = << >> THEN << >> ELSE Head(fs) \o Flatten(Tail(fs))

(***************************************************************************)
(* OpenAIRealtimeClient                                                    *)
(***************************************************************************)
\* publish_payload(payload): connects to the broker, publishes the compact
\* JSON of the payload; brokerUp is whether client.connect succeeds
publish_payload(payload, brokerUp) ==
    [raised |-> ~brokerUp, msg |-> Dumps(payload)]

\* the invocations of the interval that the next event belongs to
OpenCalls == IF outcome # "none" THEN << >> ELSE calls

\* the event loop is not held by a blocking call of one of its tasks
LoopFree == ~publishing

\* the consumer task is at "async for raw in ws" with a frame to read: one
\* that arrives on the open socket, or one the library received before the
\* socket closed, which "async for" hands out before it ends; the loop runs
\* the uplink task, created first, before the consumer's first step
ConsumerReady == consumer = "running" /\ LoopFree /\ uplink_at # "start"

\* ws.send(msg) called by a task or coroutine: the frames written on the
\* websocket so far, and the new one with its writer
ws_send(by, fs, msg) ==
    Append(fs, [by |-> by, type |-> msg.type, chunk |-> msg.chunk])

\* the characters ch, a brace, in one lexeme: the brace itself, or a string
\* literal with braces in it
CharsIn(tok, ch) ==
    CASE tok = ch -> 1
      [] tok = "\"{\\\"speak\\\":\\\"hi\\\",\\\"command\\\":null}\"" -> 1
      [] tok = "\"{\"" -> IF ch = "{" THEN 1 ELSE 0
      [] OTHER -> 0

\* text.count(ch) for a brace ch: str.count counts characters, those inside
\* string literals too
RECURSIVE Count(_, _)
Count(text, ch) ==
    IF text = << >> THEN 0
    ELSE CharsIn(Head(text), ch) + Count(Tail(text), ch)

\* _feed_json_delta after the append, the braces balancing and json.loads
\* having given r: the buffer it leaves, its publish_payload invocations,
\* whether it raises the error of publish_payload
feed_json_delta_loaded(text, r, brokerUp) ==
    IF ~r.ok
    THEN [buffer |-> << >>, calls |-> << >>, raised |-> FALSE]
    ELSE [buffer |-> << >>, calls |-> << publish_payload(r.val, brokerUp) >>,
          raised |-> ~brokerUp]

\* _feed_json_delta(delta): parses and publishes as soon as the braces balance
feed_json_delta(buffer, frag, brokerUp) ==
    IF Count(buffer \o frag, "{") # Count(buffer \o frag, "}")
    THEN [buffer |-> buffer \o frag, calls |-> << >>, raised |-> FALSE]
    ELSE feed_json_delta_loaded(buffer \o frag, Loads(buffer \o frag), brokerUp)

\* content_part branches that call _feed_json_delta instead of appending
on_content_part_eager(buffer, frag) ==
    [buffer |-> feed_json_delta(buffer, frag, TRUE).buffer,
     calls |-> feed_json_delta(buffer, frag, TRUE).calls]

\* the two content_part branches of _handle_responses: self._json_buffer += frag
on_content_part(buffer, frag) ==
    [buffer |-> buffer \o frag, calls |-> << >>]

\* the response.done branch without its "if not self._json_buffer" test
on_response_done_unguarded(buffer, brokerUp) ==
    LET r == Loads(buffer) IN
    IF ~r.ok
    THEN [outcome |-> "parse_failed", buffer |-> << >>, calls |-> << >>,
          raised |-> FALSE]
    ELSE LET p == publish_payload(r.val, brokerUp) IN
         [outcome |-> IF p.raised THEN "publish_raised" ELSE "published",
          buffer |-> IF p.raised THEN buffer ELSE << >>,
          calls |-> << p >>, raised |-> p.raised]

\* the response.done branch of _handle_responses: what it reports, the buffer it
\* leaves, the publish_payload invocations it makes, whether it raises
on_response_done(buffer, brokerUp) ==
    IF buffer = << >>
    THEN [outcome |-> "empty", buffer |-> << >>, calls |-> << >>, raised |-> FALSE]
    ELSE LET r == Loads(buffer) IN
         IF ~r.ok
         THEN [outcome |-> "parse_failed", buffer |-> << >>, calls |-> << >>,
               raised |-> FALSE]
         ELSE LET p == publish_payload(r.val, brokerUp) IN
              [outcome |-> IF p.raised THEN "publish_raised" ELSE "published",
               buffer |-> IF p.raised THEN buffer ELSE << >>,
               calls |-> << p >>, raised |-> p.raised]

\* msg_type == "response.content_part.delta"
HandleContentPartDelta ==
    /\ ConsumerReady
    /\ received < MaxFrags
    /\ received' = received + 1
    /\ \E frag \in Fragments :
         \E res \in { on_content_part(json_buffer, frag) } :
         /\ json_buffer' = res.buffer
         /\ calls' = OpenCalls \o res.calls
         /\ turn' = Append(turn, frag)
    /\ resolved' = FALSE
    /\ outcome' = "none"
    /\ lastRaw' = << >>
    /\ readers' = readers \cup { "consumer" }
    /\ UNCHANGED << last_transcript, client_secret, mainpc, conn, ws, lost,
                    cancel_requested, producer,                     consumer, consumer_exc, sent, uplinkVars, callVars,
                    fallbackCalls, parserVars >>

\* msg_type == "response.content_part.done"
HandleContentPartDone ==
    /\ ConsumerReady
    /\ received < MaxFrags
    /\ received' = received + 1
    /\ \E frag \in Fragments :
         \E res \in { on_content_part(json_buffer, frag) } :
         /\ json_buffer' = res.buffer
         /\ calls' = OpenCalls \o res.calls
         /\ turn' = Append(turn, frag)
    /\ resolved' = FALSE
    /\ outcome' = "none"
    /\ lastRaw' = << >>
    /\ readers' = readers \cup { "consumer" }
    /\ UNCHANGED << last_transcript, client_secret, mainpc, conn, ws, lost,
                    cancel_requested, producer,                     consumer, consumer_exc, sent, uplinkVars, callVars,
                    fallbackCalls, parserVars >>

\* msg_type == "response.done": handled to its end, or up to the call of
\* publish_payload, which blocks until the broker has answered
HandleResponseDone ==
    /\ ConsumerReady
    /\ \E res \in { on_response_done(json_buffer, TRUE) } :
         IF res.calls = << >>
         THEN /\ json_buffer' = res.buffer
              /\ calls' = OpenCalls
              /\ outcome' = res.outcome
              /\ lastRaw' = json_buffer
              /\ turn' = << >>
              /\ resolved' = TRUE
              /\ UNCHANGED publishing
         ELSE /\ publishing' = TRUE
              /\ calls' = OpenCalls
              /\ outcome' = "none"
              /\ lastRaw' = << >>
              /\ UNCHANGED << json_buffer, turn, resolved >>
    /\ readers' = readers \cup { "consumer" }
    /\ UNCHANGED << last_transcript, client_secret, mainpc, conn, ws, lost,
                    cancel_requested, producer,                     consumer, consumer_exc, sent, uplinkVars, connect_result,
                    close_called, received, fallbackCalls, parserVars >>

\* publish_payload returns or raises, and the response.done branch ends
PublishReturn ==
    /\ publishing
    /\ publishing' = FALSE
    /\ \E brokerUp \in BOOLEAN :
         \E res \in { on_response_done(json_buffer, brokerUp) } :
           /\ json_buffer' = res.buffer
           /\ calls' = OpenCalls \o res.calls
           /\ outcome' = res.outcome
           /\ consumer' = IF res.raised THEN "failed" ELSE consumer
           /\ consumer_exc' = IF res.raised THEN "publish" ELSE consumer_exc
    /\ lastRaw' = json_buffer
    /\ turn' = << >>
    /\ resolved' = TRUE
    /\ UNCHANGED << last_transcript, client_secret, mainpc, conn, ws, lost,
                    cancel_requested, producer,                     sent, uplinkVars, connect_result, close_called, readers,
                    received, fallbackCalls, parserVars >>

\* any other msg_type: continue
HandleOther ==
    /\ ConsumerReady
    /\ outcome' = "none"
    /\ lastRaw' = << >>
    /\ calls' = OpenCalls
    /\ readers' = readers \cup { "consumer" }
    /\ UNCHANGED << clientVars, mainpc, conn, ws, lost,
                    cancel_requested, producer, consumer,
                    consumer_exc, sent, uplinkVars, callVars, turn, resolved, received,
                    fallbackCalls, parserVars >>

\* the endpoint closes the socket: its close frame is received, with a normal
\* or an error code, and the connection is still to end; or the connection
\* is dropped without a close frame
TransportClose ==
    /\ ws = "open"
    /\ \/ ws' \in { "closed_ok", "closed_err" } /\ lost' = FALSE
       \/ ws' = "closed_err" /\ lost' = TRUE
    /\ UNCHANGED << clientVars, mainpc, conn, cancel_requested, producer,
                    consumer, consumer_exc, sent, uplinkVars, callVars, readers,
                    turnVars, fallbackCalls, parserVars >>

\* the connection of a socket in its closing handshake ends
ConnectionLost ==
    /\ ws \in { "closed_ok", "closed_err" }
    /\ ~lost
    /\ lost' = TRUE
    /\ UNCHANGED << clientVars, mainpc, conn, ws, cancel_requested, producer,
                    consumer, consumer_exc, sent, uplinkVars, callVars, readers,
                    turnVars, fallbackCalls, parserVars >>

\* "async for raw in ws" on a closed socket with no frame left: ends, or raises
\* ConnectionClosedError; the task is over and no turn is in progress
ConsumerEnd ==
    /\ ConsumerReady
    /\ ws \in { "closed_ok", "closed_err" }
    /\ IF ws = "closed_ok"
       THEN consumer' = "done" /\ UNCHANGED consumer_exc
       ELSE consumer' = "failed" /\ consumer_exc' = "transport"
    /\ readers' = readers \cup { "consumer" }
    /\ turn' = << >>
    /\ outcome' = "none"
    /\ lastRaw' = << >>
    /\ calls' = OpenCalls
    /\ UNCHANGED << clientVars, mainpc, conn, ws, lost, cancel_requested,
                    producer, sent, uplinkVars, callVars, resolved, received,
                    fallbackCalls, parserVars >>

\* queue.put_nowait(chunk), run by loop.call_soon_threadsafe in call order
put_nowait(q, chunk) == Append(q, chunk)

\* a queue.get() that hands out the newest chunk
queue_get_newest(q) ==
    [chunk |-> q[Len(q)], rest |-> SubSeq(q, 1, Len(q) - 1)]

\* queue.get(): the chunk it returns and the queue it leaves
queue_get(q) == [chunk |-> Head(q), rest |-> Tail(q)]

\* json.dumps({"type": "input_audio_buffer.append", "audio": ...})
append_frame(chunk) == [type |-> "append", chunk |-> chunk]

\* json.dumps({"type": "input_audio_buffer.commit"}), sent in the finally
\* clause of _stream_audio
commit_frame == [type |-> "commit", chunk |-> 0]

\* the close frame that ws.close() writes on an open socket
close_frame == [type |-> "close", chunk |-> 0]

\* the event loop of asyncio.run runs the session: connect() waits for its
\* tasks in it, or it is being closed
LoopAlive == conn = "waiting" \/ mainpc \in { "shutdown1", "shutdown2" }

\* _stream_audio, first step: Microphone(), the queue, and
\* loop.run_in_executor(None, mic.stream, enqueue) starts the capture thread;
\* the task then waits at queue.get()
UplinkStart ==
    /\ producer = "running"
    /\ uplink_at = "start"
    /\ LoopFree
    /\ mic' = "capturing"
    /\ uplink_at' = "get"
    /\ UNCHANGED << clientVars, mainpc, conn, ws, lost, cancel_requested,
                    producer, consumer, consumer_exc, sent, scheduled, queue,
                    held, commit, captured, frames, callVars, readers, turnVars,
                    fallbackCalls, parserVars >>

\* Microphone.stream: the input stream calls back, in its own thread, with
\* one more chunk, and enqueue schedules the put on the loop; nothing stops
\* the stream when the session ends, and once asyncio.run has closed the loop
\* loop.call_soon_threadsafe raises RuntimeError in the device thread and
\* the chunk is scheduled nowhere
MicCapture ==
    /\ mic = "capturing"
    /\ captured < MaxChunks
    /\ captured' = captured + 1
    /\ scheduled' = IF LoopAlive
                    THEN Append(scheduled, captured + 1)
                    ELSE scheduled
    /\ direct' = NoCall
    /\ UNCHANGED << clientVars, mainpc, conn, ws, lost, cancel_requested,
                    producer, consumer, consumer_exc, sent, mic, queue, held,
                    uplink_at, commit, frames, callVars, readers, turnVars,
                    fallbackCalls, procVars, validateVars >>

\* the loop runs the oldest scheduled callback: queue.put_nowait(chunk)
QueuePut ==
    /\ LoopAlive
    /\ LoopFree
    /\ scheduled # << >>
    /\ queue' = put_nowait(queue, Head(scheduled))
    /\ scheduled' = Tail(scheduled)
    /\ UNCHANGED << clientVars, mainpc, conn, ws, lost, cancel_requested,
                    producer, consumer, consumer_exc, sent, mic, held, uplink_at,
                    commit, captured, frames, callVars, readers, turnVars,
                    fallbackCalls, parserVars >>

\* Microphone.stream ends: sd.InputStream raises when it is opened (no input
\* device), whatever connect() and main() are doing by then; once open,
\* "while True: sd.sleep" has no exit in a worker thread
MicStop ==
    /\ mic = "capturing"
    /\ captured = 0
    /\ mic' = "stopped"
    /\ UNCHANGED << clientVars, mainpc, conn, ws, lost, cancel_requested,
                    producer, consumer, consumer_exc, sent, scheduled, queue,
                    held, uplink_at, commit, captured, frames, callVars, readers,
                    turnVars, fallbackCalls, parserVars >>

\* the uplink is in its loop at queue.get() and no cancellation is on its way
UplinkWaits ==
    producer = "running" /\ uplink_at = "get" /\ ~cancel_requested /\ LoopFree

\* _stream_audio: queue.get() returns a chunk, sent as input_audio_buffer.append
UplinkSend ==
    /\ UplinkWaits
    /\ ws = "open"
    /\ queue # << >>
    /\ queue' = queue_get(queue).rest
    /\ frames' = ws_send("uplink", frames, append_frame(queue_get(queue).chunk))
    /\ sent' = sent + 1
    /\ UNCHANGED << clientVars, mainpc, conn, ws, lost, cancel_requested,
                    producer, consumer, consumer_exc, mic, scheduled, held,
                    uplink_at, commit, captured, callVars, readers, turnVars,
                    fallbackCalls, parserVars >>

\* _stream_audio: queue.get() returns a chunk and ws.send, on a socket in its
\* closing handshake, waits for the connection to end before it raises
UplinkTake ==
    /\ UplinkWaits
    /\ ws \in { "closed_ok", "closed_err" }
    /\ ~lost
    /\ queue # << >>
    /\ queue' = queue_get(queue).rest
    /\ held' = << queue_get(queue).chunk >>
    /\ uplink_at' = "send"
    /\ UNCHANGED << clientVars, mainpc, conn, ws, lost, cancel_requested,
                    producer, consumer, consumer_exc, sent, mic, scheduled,
                    commit, captured, frames, callVars, readers, turnVars,
                    fallbackCalls, parserVars >>

\* _stream_audio: ws.send of a chunk, just taken or held since the socket
\* began to close, raises ConnectionClosed on the lost connection, the commit
\* in the finally clause fails silently and the task ends
UplinkClosed ==
    /\ producer = "running"
    /\ ~cancel_requested
    /\ LoopFree
    /\ lost
    /\ \/ uplink_at = "send" /\ UNCHANGED queue
       \/ uplink_at = "get" /\ queue # << >> /\ queue' = queue_get(queue).rest
    /\ held' = << >>
    /\ uplink_at' = "end"
    /\ commit' = "failed"
    /\ producer' = "done"
    /\ UNCHANGED << clientVars, mainpc, conn, ws, lost, cancel_requested,
                    consumer, consumer_exc, sent, mic, scheduled, captured,
                    frames, callVars, readers, turnVars, fallbackCalls,
                    parserVars >>

\* connect(), first step: create_session() if the client has no secret yet,
\* then "async with connect(...)" awaits the handshake of the socket
ConnectStart ==
    /\ mainpc \in { "connect1", "connect2" }
    /\ conn = "idle"
    /\ client_secret' = TRUE
    /\ conn' = "opening"
    /\ connect_result' = "none"
    /\ direct' = NoCall
    /\ UNCHANGED << json_buffer, last_transcript, mainpc, ws, lost,
                    cancel_requested, producer, consumer, consumer_exc, sent,
                    uplinkVars, publishing, close_called, readers, turnVars,
                    fallbackCalls, procVars, validateVars >>

\* connect(): the socket is open, both tasks are created and connect() waits
\* for them in asyncio.wait; mic and captured are those of the session that
\* opens: the capture thread of an earlier session, if it still lives, calls
\* back on a closed loop and reaches nothing of the client
ConnectOpen ==
    /\ conn = "opening"
    /\ ws' = "open"
    /\ lost' = FALSE
    /\ cancel_requested' = FALSE
    /\ producer' = "running"
    /\ consumer' = "running"
    /\ consumer_exc' = ""
    /\ sent' = 0
    /\ mic' = "off"
    /\ scheduled' = << >>
    /\ queue' = << >>
    /\ held' = << >>
    /\ uplink_at' = "start"
    /\ captured' = 0
    /\ frames' = << >>
    /\ readers' = { }
    /\ commit' = "none"
    /\ close_called' = FALSE
    /\ conn' = "waiting"
    /\ turn' = << >>
    /\ outcome' = "none"
    /\ lastRaw' = << >>
    /\ calls' = << >>
    /\ UNCHANGED << clientVars, mainpc, publishing, connect_result, resolved,
                    received,
                    fallbackCalls, parserVars >>

\* connect() raises: create_session does, in the first step of a client
\* without a secret, or the handshake of the socket does; main() has the
\* first call outside its try, the second inside
ConnectFail ==
    /\ mainpc \in { "connect1", "connect2" }
    /\ \/ conn = "idle" /\ ~client_secret
       \/ conn = "opening"
    /\ conn' = "idle"
    /\ connect_result' = "raised"
    /\ mainpc' = IF mainpc = "connect1" THEN "exit" ELSE "close"
    /\ direct' = NoCall
    /\ UNCHANGED << clientVars, ws, lost, cancel_requested, producer, consumer,
                    consumer_exc, sent, uplinkVars, publishing, close_called,
                    readers, turnVars, fallbackCalls, procVars, validateVars >>

\* asyncio.wait(..., FIRST_EXCEPTION) returned
WaitReturns ==
    \/ producer = "failed"
    \/ consumer = "failed"
    \/ (producer # "running" /\ consumer # "running")

\* connect() returns None, and asyncio.run starts closing its loop
connect_returns ==
    /\ conn' = "idle"
    /\ connect_result' = "returned"
    /\ mainpc' = IF mainpc = "connect1" THEN "shutdown1" ELSE "shutdown2"

\* connect() resumes after asyncio.wait: task.cancel() on the task still
\* pending, which only requests the cancellation, the results printed, and
\* "async with" left, whose exit awaits ws.close().  Depending on the build of
\* websockets and asyncio, close() suspends before it does anything; or it
\* writes its close frame on the open socket at once and waits for the
\* closing handshake; or, on a lost connection, it returns without suspending
\* and connect() returns in this step, with the cancelled task still pending.
ConnectCancel ==
    /\ conn = "waiting"
    /\ ~cancel_requested
    /\ LoopFree
    /\ WaitReturns
    /\ cancel_requested' = TRUE
    /\ \/ UNCHANGED << ws, lost, frames, mainpc, conn, connect_result >>
       \/ /\ ws = "open"
          /\ ws' = "closed_ok"
          /\ lost' = FALSE
          /\ frames' = ws_send("connect", frames, close_frame)
          /\ UNCHANGED << mainpc, conn, connect_result >>
       \/ /\ lost
          /\ connect_returns
          /\ UNCHANGED << ws, lost, frames >>
    /\ UNCHANGED << clientVars, producer, consumer, consumer_exc, sent, mic,
                    scheduled, queue, held, uplink_at, commit, captured,
                    publishing, close_called, readers, turnVars, fallbackCalls,
                    parserVars >>

\* the cancelled uplink gets CancelledError at its await, queue.get() or the
\* ws.send of a chunk, and tries the commit in its finally clause: written on
\* the open socket; suspended on a socket in its closing handshake; raised at
\* once on a lost connection, after which the task ends cancelled in the same
\* step, be it before connect() returns or after, while asyncio.run closes the
\* loop
UplinkCommit ==
    /\ LoopAlive
    /\ LoopFree
    /\ cancel_requested
    /\ producer = "running"
    /\ uplink_at \in { "get", "send" }
    /\ held' = << >>
    /\ IF ws = "open"
       THEN /\ commit' = "sent"
            /\ frames' = ws_send("uplink", frames, commit_frame)
            /\ uplink_at' = "commit"
            /\ UNCHANGED producer
       ELSE IF ~lost
       THEN /\ uplink_at' = "commit"
            /\ UNCHANGED << commit, frames, producer >>
       ELSE /\ commit' = "failed"
            /\ uplink_at' = "end"
            /\ producer' = "cancelled"
            /\ UNCHANGED frames
    /\ UNCHANGED << clientVars, mainpc, conn, ws, lost, cancel_requested,
                    consumer, consumer_exc, sent, mic, scheduled, queue,
                    captured, callVars, readers, turnVars, fallbackCalls,
                    parserVars >>

\* the ws.send of the commit resumes: it returns after the commit was written,
\* or raises now that the connection is lost; the cancelled task leaves its
\* finally clause and ends
UplinkCancelled ==
    /\ LoopAlive
    /\ LoopFree
    /\ producer = "running"
    /\ uplink_at = "commit"
    /\ commit = "sent" \/ lost
    /\ commit' = IF commit = "none" THEN "failed" ELSE commit
    /\ uplink_at' = "end"
    /\ producer' = "cancelled"
    /\ UNCHANGED << clientVars, mainpc, conn, ws, lost, cancel_requested,
                    consumer, consumer_exc, sent, mic, scheduled, queue, held,
                    captured, frames, callVars, readers, turnVars,
                    fallbackCalls, parserVars >>

\* ws.close(), which suspended before it did anything, writes its close frame
\* on the socket still open; the cancelled uplink, scheduled before it, has
\* taken its step
SocketClose ==
    /\ conn = "waiting"
    /\ cancel_requested
    /\ LoopFree
    /\ ws = "open"
    /\ producer # "running" \/ uplink_at = "commit"
    /\ ws' = "closed_ok"
    /\ lost' = FALSE
    /\ frames' = ws_send("connect", frames, close_frame)
    /\ UNCHANGED << clientVars, mainpc, conn, cancel_requested, producer,
                    consumer, consumer_exc, sent, mic, scheduled, queue, held,
                    uplink_at, commit, captured, callVars, readers, turnVars,
                    fallbackCalls, parserVars >>

\* ws.close() returns now that the connection is lost, "async with" is left
\* and connect() returns; it does not wait for the task it cancelled
ConnectReturn ==
    /\ conn = "waiting"
    /\ cancel_requested
    /\ LoopFree
    /\ lost
    /\ connect_returns
    /\ UNCHANGED << clientVars, ws, lost, cancel_requested, producer, consumer,
                    consumer_exc, sent, uplinkVars, publishing, close_called,
                    readers, turnVars, fallbackCalls, parserVars >>

\* asyncio.run returns: it has cancelled and awaited the tasks left, then
\* waited for the executor thread of Microphone.stream, which ends only if the
\* input stream could not be opened; with the stream open the wait has no end
\* (Python 3.11) or ends on a timeout (3.12 and later), and the thread
\* outlives the loop
RunReturn ==
    /\ mainpc \in { "shutdown1", "shutdown2" }
    /\ producer # "running"
    /\ mainpc' = IF mainpc = "shutdown1" THEN "connect2" ELSE "close"
    /\ direct' = NoCall
    /\ UNCHANGED << clientVars, conn, ws, lost, cancel_requested, producer,
                    consumer, consumer_exc, sent, uplinkVars, callVars, readers,
                    turnVars, fallbackCalls, procVars, validateVars >>

\* close(): the client has no _ws attribute, so nothing is closed; called by
\* main() in its finally, or by another caller while connect() is running,
\* taken here between two turns
close ==
    /\ \/ mainpc = "close" /\ mainpc' = "exit" /\ UNCHANGED close_called
       \/ /\ conn = "waiting" /\ turn = << >> /\ ~close_called
          /\ close_called' = TRUE
          /\ UNCHANGED mainpc
    /\ direct' = NoCall
    /\ UNCHANGED << clientVars, conn, ws, lost, cancel_requested, producer,
                    consumer, consumer_exc, sent, uplinkVars, publishing,
                    connect_result, readers, turnVars,
                    fallbackCalls, procVars, validateVars >>

(***************************************************************************)
(* ResponseParser.process and the helpers it calls                         *)
(***************************************************************************)
TextNull     == FragHead \o FragNull
TextCommand  == FragHead \o FragCommand
TextInvalid  == FragInvalid
TextMismatch == FragHead \o FragOne
TextDupTarget ==
    FragHead \o << ":", "{", "\"action\"", ":", "\"turn_on\"", ",",
                   "\"device\"", ":", "\"lights\"", ",",
                   "\"target\"", ":", "[", "\"red\"", ",", "\"red\"", "]",
                   "}", "}" >>
TextTwoTargets ==
    FragHead \o << ":", "{", "\"action\"", ":", "\"turn_on\"", ",",
                   "\"device\"", ":", "\"lights\"", ",",
                   "\"target\"", ":", "[", "\"red\"", ",", "\"blue\"", "]",
                   "}", "}" >>
TextEmptyObj == << "{", "}" >>
TextNullLit  == << "null" >>
TextQuoted   == << "\"{\\\"speak\\\":\\\"hi\\\",\\\"command\\\":null}\"" >>

\* raw_content values process is called with
RawContents ==
    { << >>, TextNull, TextCommand, TextTwoTargets, TextInvalid, TextMismatch,
      TextDupTarget }

\* transcript values process is called with
Transcripts == { "None", "", "turn on the red light" }

\* what openai.ChatCompletion.create does: raises, or answers with a content
Replies ==
    { [raised |-> TRUE, content |-> << >>] } \cup
    { [raised |-> FALSE, content |-> c] :
        c \in { TextNull, TextCommand, TextInvalid, TextMismatch, TextEmptyObj,
                TextNullLit, TextQuoted } }

NoReply == [raised |-> TRUE, content |-> << "unused" >>]

\* OpenAIValidator.fallback(transcript, raw_response) -> (success, fixed_parsed)
fallback(transcript, raw_response, reply) ==
    IF reply.raised
    THEN [success |-> FALSE, fixed |-> PyNone]
    ELSE LET r == Loads(reply.content) IN
         IF r.ok
         THEN [success |-> TRUE, fixed |-> r.val]
         ELSE [success |-> FALSE, fixed |-> PyNone]

\* "if transcript:" in handle_invalid_response
TranscriptGiven(transcript) == transcript # "None" /\ transcript # ""

\* handle_invalid_response(response_text, transcript) -> fixed_json or None
handle_invalid_response(response_text, transcript, reply) ==
    IF TranscriptGiven(transcript)
    THEN LET f == fallback(transcript, response_text, reply) IN
         IF f.success THEN f.fixed ELSE PyNone
    ELSE PyNone

\* the values "for color in targets" goes through
TargetsOf(targets) ==
    CASE targets.k = "str" -> << targets >>
      [] targets.k = "arr" ->
           [i \in 1..Len(targets.items) |-> targets.items[i].val]
      [] targets.k = "obj" ->
           [i \in 1..Len(targets.items) |-> PyStr(targets.items[i].key)]
      [] OTHER -> << >>

\* self.client.publish(topic, payload) in dispatch: topic is device/color
mqtt_message(command, color) ==
    [device |-> GetOrNone(command, "device"), color |-> color,
     payload |-> IF GetOrNone(command, "action") = PyStr("turn_on")
                 THEN "ON" ELSE "OFF"]

\* the messages of the loop of dispatch, one per round
MessagesOf(command, colors) ==
    [i \in 1..Len(colors) |-> mqtt_message(command, colors[i])]

\* MQTTHandler.dispatch(command): the exception it raises before its loop, ""
\* if none, and the messages its loop publishes, each followed by
\* "await asyncio.sleep(0)"
dispatch(command) ==
    IF command.k # "obj"
    THEN [exc |-> "AttributeError", messages |-> << >>]
    ELSE IF GetOrNone(command, "target").k \in { "null", "num" }
    THEN [exc |-> "TypeError", messages |-> << >>]
    ELSE [exc |-> "",
          messages |-> MessagesOf(command, TargetsOf(GetOrNone(command, "target")))]

\* where process is when it first leaves the event loop to others or ends:
\* pc is "returned", "raised" or, suspended in dispatch, "dispatching"; what
\* it parsed, the commands it handed to dispatch, the messages of dispatch
Result(pc, exc, val, cmds, msgs) ==
    [pc |-> pc, exc |-> exc, parsed |-> val, dispatched |-> cmds,
     messages |-> msgs]

\* process from "command = parsed.get('command')" on; d is dispatch(command)
process_parsed(parsed, command, dispatcher, d) ==
    IF parsed.k # "obj"
    THEN Result("raised", "AttributeError", parsed, << >>, << >>)
    ELSE IF dispatcher = "None"
    THEN Result("returned", "", parsed, << >>, << >>)
    ELSE IF d.exc # ""
    THEN Result("raised", d.exc, parsed, << command >>, << >>)
    ELSE IF d.messages = << >>
    THEN Result("returned", "", parsed, << command >>, << >>)
    ELSE Result("dispatching", "", parsed, << command >>, d.messages)

\* process at "parsed = json.loads(fixed)"
process_again(again, dispatcher) ==
    IF ~again.ok
    THEN Result("raised", "JSONDecodeError", PyNone, << >>, << >>)
    ELSE process_parsed(again.val, GetOrNone(again.val, "command"), dispatcher,
                        dispatch(GetOrNone(again.val, "command")))

\* process after handle_invalid_response returned fixed
process_fixed(fixed, dispatcher) ==
    IF ~Truthy(fixed)
    THEN Result("returned", "", PyNone, << >>, << >>)
    ELSE IF fixed.k # "str"
    THEN Result("raised", "TypeError", PyNone, << >>, << >>)
    ELSE process_again(Loads(Lex(fixed.s)), dispatcher)

\* process after is_valid_command_structure returned v
process_checked(v, raw_content, transcript, dispatcher, reply) ==
    IF v.valid
    THEN process_parsed(v.parsed, GetOrNone(v.parsed, "command"), dispatcher,
                        dispatch(GetOrNone(v.parsed, "command")))
    ELSE process_fixed(handle_invalid_response(raw_content, transcript, reply),
                       dispatcher)

\* process(raw_content, transcript), with the fallback model's reply, up to
\* its first "await asyncio.sleep(0)" or its end
process(raw_content, transcript, dispatcher, reply) ==
    process_checked(is_valid_command_structure(raw_content), raw_content,
                    transcript, dispatcher, reply)

\* the calls of process that can be in progress at once
Calls == 1..MaxCalls

\* a caller starts parser.process(raw_content, transcript) as a task, beside
\* the calls already made
ProcessCall(c) ==
    /\ p_pc[c] = "idle"
    /\ \A b \in 1..(c - 1) : p_pc[b] # "idle"
    /\ p_pc' = [p_pc EXCEPT ![c] = "called"]
    /\ \E raw \in RawContents : p_raw' = [p_raw EXCEPT ![c] = raw]
    /\ \E t \in Transcripts : p_transcript' = [p_transcript EXCEPT ![c] = t]
    /\ UNCHANGED << clientVars, taskVars, turnVars, fallbackCalls, p_dispatcher,
                    p_reply, p_parsed, p_exc, p_todo, p_fallbacks, dispatched,
                    published, validateVars, direct >>

\* process runs from its call to its end, or to the first
\* "await asyncio.sleep(0)" of dispatch, which follows the first publish
ProcessRun(c) ==
    /\ p_pc[c] = "called"
    /\ LET invoked == ~is_valid_command_structure(p_raw[c]).valid
                      /\ TranscriptGiven(p_transcript[c])
       IN \E reply \in (IF invoked THEN Replies ELSE { NoReply }) :
            \E res \in { process(p_raw[c], p_transcript[c], p_dispatcher, reply) } :
            /\ p_reply' = [p_reply EXCEPT ![c] = reply]
            /\ fallbackCalls' =
                 IF invoked
                 THEN Append(fallbackCalls,
                             [transcript |-> p_transcript[c], raw |-> p_raw[c]])
                 ELSE fallbackCalls
            /\ p_fallbacks' =
                 IF invoked
                 THEN [p_fallbacks EXCEPT ![c] = p_fallbacks[c] + 1]
                 ELSE p_fallbacks
            /\ p_pc' = [p_pc EXCEPT ![c] = res.pc]
            /\ p_exc' = [p_exc EXCEPT ![c] = res.exc]
            /\ p_parsed' = [p_parsed EXCEPT ![c] = res.parsed]
            /\ dispatched' = [dispatched EXCEPT ![c] = res.dispatched]
            /\ IF res.pc = "dispatching"
               THEN /\ published' =
                         Append(published, [call |-> c, msg |-> Head(res.messages)])
                    /\ p_todo' = [p_todo EXCEPT ![c] = Tail(res.messages)]
               ELSE UNCHANGED << published, p_todo >>
    /\ UNCHANGED << clientVars, taskVars, turnVars, p_raw, p_transcript,
                    p_dispatcher, validateVars, direct >>

\* dispatch resumes after "await asyncio.sleep(0)": the next round of its
\* loop publishes and sleeps again, or the loop is over and process returns
DispatchResume(c) ==
    /\ p_pc[c] = "dispatching"
    /\ IF p_todo[c] = << >>
       THEN /\ p_pc' = [p_pc EXCEPT ![c] = "returned"]
            /\ UNCHANGED << published, p_todo >>
       ELSE /\ published' =
                 Append(published, [call |-> c, msg |-> Head(p_todo[c])])
            /\ p_todo' = [p_todo EXCEPT ![c] = Tail(p_todo[c])]
            /\ UNCHANGED p_pc
    /\ UNCHANGED << clientVars, taskVars, turnVars, fallbackCalls, p_raw,
                    p_transcript, p_dispatcher, p_reply, p_parsed, p_exc,
                    p_fallbacks, dispatched, validateVars, direct >>

(***************************************************************************)
(* The public functions a caller can call directly; nothing in main() or   *)
(* in a session calls them.                                                *)
(***************************************************************************)
\* the text without its leading whitespace
RECURSIVE LStrip(_)
LStrip(t) == IF t # << >> /\ Head(t) = " " THEN LStrip(Tail(t)) ELSE t

\* the text without its trailing whitespace
RECURSIVE RStrip(_)
RStrip(t) ==
    IF t # << >> /\ t[Len(t)] = " " THEN RStrip(SubSeq(t, 1, Len(t) - 1)) ELSE t

\* raw.strip()
strip(t) == RStrip(LStrip(t))

\* the "quick schema check" of is_valid_json
quick_shape(obj) ==
    /\ obj.k = "obj"
    /\ HasKey(obj, "speak") /\ Get(obj, "speak").k = "str"
    /\ HasKey(obj, "command") /\ Get(obj, "command").k \in { "null", "obj" }

\* is_valid_json after json.loads(cleaned) gave r
is_valid_json_loaded(r, brokerUp) ==
    IF ~r.ok
    THEN [returns |-> FALSE, raised |-> FALSE, calls |-> << >>]
    ELSE IF ~quick_shape(r.val)
    THEN [returns |-> FALSE, raised |-> FALSE, calls |-> << >>]
    ELSE [returns |-> brokerUp, raised |-> ~brokerUp,
          calls |-> << publish_payload(r.val, brokerUp) >>]

\* OpenAIRealtimeClient.is_valid_json(raw): what it returns, whether it raises
\* the error of publish_payload, the publish_payload invocations it makes
is_valid_json(raw, brokerUp) == is_valid_json_loaded(Loads(strip(raw)), brokerUp)

\* OpenAIRealtimeClient.validate_payload(payload)
validate_payload(payload) ==
    IF payload.k # "obj"
    THEN FALSE
    ELSE IF ~HasKey(payload, "speak") \/ ~HasKey(payload, "command")
    THEN FALSE
    ELSE IF Get(payload, "speak").k # "str"
    THEN FALSE
    ELSE IF Get(payload, "command").k = "null"
    THEN TRUE
    ELSE IF Get(payload, "command").k # "obj"
    THEN FALSE
    ELSE \A key \in { "action", "device", "target" } :
           HasKey(Get(payload, "command"), key)

\* OpenAIValidator.validate_or_fallback after validate returned v: the pair it
\* returns, and whether it invoked fallback
validate_or_fallback_checked(v, response_text, transcript, reply) ==
    IF v.valid
    THEN [ok |-> TRUE, value |-> v.parsed, invoked |-> FALSE]
    ELSE [ok |-> fallback(transcript, response_text, reply).success,
          value |-> fallback(transcript, response_text, reply).fixed,
          invoked |-> TRUE]

\* OpenAIValidator.validate_or_fallback(response_text, transcript)
validate_or_fallback(response_text, transcript, reply) ==
    validate_or_fallback_checked(validate(response_text), response_text,
                                 transcript, reply)

\* texts handed to is_valid_json and validate_or_fallback
TextPartial ==
    FragHead \o << ":", "{", "\"action\"", ":", "\"turn_on\"", "}", "}" >>
TextSpaced == << " " >> \o TextNull \o << " " >>
DirectTexts ==
    { << >>, TextNull, TextCommand, TextPartial, TextSpaced, TextInvalid,
      TextMismatch, TextNullLit }

\* values handed to validate_payload
DirectPayloads ==
    { PyNone, PyStr("hi"), PyDict(<< >>) } \cup
    { Loads(t).val : t \in { TextNull, TextCommand, TextPartial, TextMismatch } }

\* the client has opened no socket yet: the calls below neither read nor
\* change what a session leaves, and are taken before the first one
Fresh == conn = "idle" /\ ws = "none"

\* client.create_session(), called by a caller before the first connect():
\* the POST returns and the client keeps the secret of the session, or
\* requests raises and the client is as it was
CreateSession ==
    /\ Fresh
    /\ \E ok \in BOOLEAN :
         /\ client_secret' = (ok \/ client_secret)
         /\ direct' = Call("create_session", << >>, PyNone, "None", ok, PyNone,
                           ~ok, << >>)
    /\ UNCHANGED << json_buffer, last_transcript, taskVars, turnVars,
                    fallbackCalls, procVars, validateVars >>

\* client.is_valid_json(raw), called while no session is open
IsValidJson ==
    /\ Fresh
    /\ \E raw \in DirectTexts, brokerUp \in BOOLEAN :
         \E res \in { is_valid_json(raw, brokerUp) } :
           direct' = Call("is_valid_json", raw, PyNone, "None", res.returns,
                          PyNone, res.raised, res.calls)
    /\ UNCHANGED << clientVars, taskVars, turnVars, fallbackCalls, procVars,
                    validateVars >>

\* client.validate_payload(payload)
ValidatePayload ==
    /\ Fresh
    /\ \E payload \in DirectPayloads :
         direct' = Call("validate_payload", << >>, payload, "None",
                        validate_payload(payload), PyNone, FALSE, << >>)
    /\ UNCHANGED << clientVars, taskVars, turnVars, fallbackCalls, procVars,
                    validateVars >>

\* validator.validate_or_fallback(response_text, transcript)
ValidateOrFallback ==
    /\ Fresh
    /\ \E text \in DirectTexts, transcript \in Transcripts :
         \E reply \in (IF validate(text).valid THEN { NoReply } ELSE Replies) :
           \E res \in { validate_or_fallback(text, transcript, reply) } :
             /\ direct' = Call("validate_or_fallback", text, PyNone, transcript,
                               res.ok, res.value, FALSE, << >>)
             /\ fallbackCalls' =
                  IF res.invoked
                  THEN << [transcript |-> transcript, raw |-> text] >>
                  ELSE << >>
    /\ UNCHANGED << clientVars, taskVars, turnVars, procVars, validateVars >>

\* client._feed_json_delta(delta); turn is what was fed since the buffer was
\* last reset
FeedJsonDelta ==
    /\ Fresh
    /\ Len(turn) < MaxFrags
    /\ \E frag \in Fragments \cup { << "\"{\"" >> }, brokerUp \in BOOLEAN :
         \E res \in { feed_json_delta(json_buffer, frag, brokerUp) } :
           /\ json_buffer' = res.buffer
           /\ turn' = IF res.buffer = << >> THEN << >> ELSE Append(turn, frag)
           /\ direct' = Call("_feed_json_delta", frag, PyNone, "None", FALSE,
                             PyNone, res.raised, res.calls)
    /\ UNCHANGED << last_transcript, client_secret, taskVars, resolved, received,
                    outcome,
                    lastRaw, calls, fallbackCalls, procVars, validateVars >>

(***************************************************************************)
(* The validators as functions of their input.                             *)
(***************************************************************************)
\* longest target array handed to the validators
MaxTargetLen == 4

\* the Turn Payloads of the data model: speak a string, command null or an
\* object of action, device and target
PayloadActions == { "turn_on", "turn_off", "set_brightness", "set_temperature",
                    "lock", "unlock" }
PayloadDevices == { "lights", "thermostat", "door", "fan" }
PayloadColours == { "red", "green", "blue" }

ColourSeqs(n) == UNION { [1..m -> PayloadColours] : m \in 0..n }

HasDuplicate(a) == \E i, j \in 1..Len(a) : i # j /\ a[i] = a[j]

ListOf(a) == PyList([i \in 1..Len(a) |-> Member("", PyStr(a[i]))])

CommandOf(action, device, target) ==
    PyDict(<< Member("action", PyStr(action)), Member("device", PyStr(device)),
              Member("target", target) >>)

PayloadOf(speak, command) ==
    PyDict(<< Member("speak", PyStr(speak)), Member("command", command) >>)

\* targets that conform: one colour, or 1 to 3 colours without duplicates
ConformingTargets ==
    { PyStr(c) : c \in PayloadColours } \cup
    { ListOf(a) : a \in { b \in ColourSeqs(3) : Len(b) >= 1 /\ ~HasDuplicate(b) } }

ConformingPayloads ==
    { PayloadOf("hi", PyNone) } \cup
    { PayloadOf("hi", CommandOf(a, d, t)) :
        a \in PayloadActions, d \in PayloadDevices, t \in ConformingTargets }

\* payloads whose target is any array of colours, conforming or not
ArrayPayloads ==
    { PayloadOf("hi", CommandOf("turn_on", "lights", ListOf(a))) :
        a \in ColourSeqs(MaxTargetLen) }

\* texts json.loads rejects: what a reply cut short looks like, and the like
MalformedTexts ==
    { SubSeq(TextCommand, 1, n) : n \in 0..(Len(TextCommand) - 1) } \cup
    { TextInvalid, TextNull \o TextNull, << "[", "\"red\"", ",", "]" >>,
      << "{", "\"speak\"", "\"hi\"", "}" >> }

\* texts handed to the validators as they are
ValidatedTexts ==
    MalformedTexts \cup { TextNull, TextMismatch, TextEmptyObj, TextNullLit,
                          TextQuoted }

ValidateIdle ==
    /\ v_pc = "idle"
    /\ v_payload = PyNone
    /\ v_text = << >>
    /\ v_result = [valid |-> FALSE, parsed |-> PyNone]
    /\ v_validate = [valid |-> FALSE, parsed |-> PyNone]
    /\ v_details = "None"

\* the validators called on json.dumps of a value
ValidateSerialized ==
    /\ v_pc = "idle"
    /\ \E P \in ConformingPayloads \cup ArrayPayloads :
         /\ v_payload' = P
         /\ v_text' = Dumps(P)
         /\ v_result' = is_valid_command_structure(Dumps(P))
         /\ v_validate' = validate(Dumps(P))
         /\ v_details' = get_validation_error_details(Dumps(P))
    /\ v_pc' = "value"
    /\ UNCHANGED << clientVars, taskVars, turnVars, fallbackCalls, procVars,
                    direct >>

\* the validators called on a text
ValidateText ==
    /\ v_pc = "idle"
    /\ \E t \in ValidatedTexts :
         /\ v_text' = t
         /\ v_result' = is_valid_command_structure(t)
         /\ v_validate' = validate(t)
         /\ v_details' = get_validation_error_details(t)
    /\ v_payload' = PyNone
    /\ v_pc' = "text"
    /\ UNCHANGED << clientVars, taskVars, turnVars, fallbackCalls, procVars,
                    direct >>

\* no call of process was made
ProcIdle ==
    /\ p_pc = [c \in Calls |-> "idle"]
    /\ p_raw = [c \in Calls |-> << >>]
    /\ p_transcript = [c \in Calls |-> "None"]
    /\ p_reply = [c \in Calls |-> NoReply]
    /\ p_parsed = [c \in Calls |-> PyNone]
    /\ p_exc = [c \in Calls |-> ""]
    /\ p_todo = [c \in Calls |-> << >>]
    /\ p_fallbacks = [c \in Calls |-> 0]
    /\ dispatched = [c \in Calls |-> << >>]
    /\ published = << >>

\* OpenAIRealtimeClient.__init__, and main() about to run connect()
ClientIdle ==
    /\ json_buffer = << >>
    /\ last_transcript = "None"
    /\ client_secret = FALSE
    /\ mainpc = "connect1"
    /\ conn = "idle"
    /\ ws = "none"
    /\ lost = FALSE
    /\ cancel_requested = FALSE
    /\ received = 0
    /\ producer = "none"
    /\ consumer = "none"
    /\ consumer_exc = ""
    /\ sent = 0
    /\ mic = "off"
    /\ scheduled = << >>
    /\ queue = << >>
    /\ held = << >>
    /\ uplink_at = "none"
    /\ captured = 0
    /\ frames = << >>
    /\ readers = { }
    /\ commit = "none"
    /\ publishing = FALSE
    /\ connect_result = "none"
    /\ close_called = FALSE
    /\ turn = << >>
    /\ resolved = FALSE
    /\ outcome = "none"
    /\ lastRaw = << >>
    /\ calls = << >>
    /\ fallbackCalls = << >>
    /\ direct = NoCall

\* main(): OpenAIRealtimeClient(dispatcher=mqtt), whose parser gets the
\* MQTTHandler
Init ==
    /\ ClientIdle
    /\ ProcIdle
    /\ p_dispatcher = "MQTTHandler"
    /\ ValidateIdle

Next ==
    \/ ConnectStart
    \/ ConnectOpen
    \/ HandleContentPartDelta
    \/ HandleContentPartDone
    \/ HandleResponseDone
    \/ PublishReturn
    \/ HandleOther
    \/ TransportClose
    \/ ConnectionLost
    \/ ConsumerEnd
    \/ UplinkStart
    \/ MicCapture
    \/ QueuePut
    \/ MicStop
    \/ UplinkSend
    \/ UplinkTake
    \/ UplinkClosed
    \/ ConnectFail
    \/ ConnectCancel
    \/ UplinkCommit
    \/ UplinkCancelled
    \/ SocketClose
    \/ ConnectReturn
    \/ RunReturn
    \/ close
    \/ CreateSession
    \/ IsValidJson

Spec == Init /\ [][Next]_vars

\* publish_payload does not block for ever: the step PublishReturn takes
PublishEnds == publishing /\ publishing' = FALSE

\* the other steps the event loop takes by itself once they are possible;
\* frames, chunks and the callers' calls are not among them
LoopStep ==
    \/ ConnectionLost
    \/ ConsumerEnd
    \/ UplinkStart
    \/ QueuePut
    \/ UplinkSend
    \/ UplinkTake
    \/ UplinkClosed
    \/ ConnectCancel
    \/ UplinkCommit
    \/ UplinkCancelled
    \/ SocketClose
    \/ ConnectReturn

SpecLive ==
    Init /\ [][Next]_vars /\ WF_publishing(PublishEnds) /\ WF_vars(LoopStep)

\* ResponseParser(dispatcher), built with or without the MQTTHandler
InitParser ==
    /\ ClientIdle
    /\ ProcIdle
    /\ p_dispatcher \in { "None", "MQTTHandler" }
    /\ ValidateIdle

NextParser ==
    \/ \E c \in Calls : ProcessCall(c)
    \/ \E c \in Calls : ProcessRun(c)
    \/ \E c \in Calls : DispatchResume(c)

SpecParser == InitParser /\ [][NextParser]_vars

NextValidate ==
    \/ ValidateSerialized
    \/ ValidateText

SpecValidate == Init /\ [][NextValidate]_vars

\* a caller's direct calls on a client that runs no session
NextCalls ==
    \/ CreateSession
    \/ IsValidJson
    \/ ValidatePayload
    \/ ValidateOrFallback
    \/ FeedJsonDelta

SpecCalls == Init /\ [][NextCalls]_vars


(***************************************************************************)
(* Properties.                                                             *)
(***************************************************************************)
\* a response.done was the last event handled; lastRaw is the buffer it found
TurnHandled == outcome # "none"

\* the text of a turn passes validation against the command schema
ValidTurn(text) == is_valid_command_structure(text).valid

\* the command of a schema-valid text is null
NullCommand(text) ==
    Get(is_valid_command_structure(text).parsed, "command").k = "null"

\* C1: a turn whose buffer at response.done is schema-valid JSON with
\* command = null causes no publish_payload invocation and no fallback call.
C1_NullCommandNotPublished ==
    (TurnHandled /\ ValidTurn(lastRaw) /\ NullCommand(lastRaw))
        => (calls = << >> /\ fallbackCalls = << >>)

\* C2: a response.done that finds a non-empty buffer failing validation invokes
\* the fallback exactly once, with that buffer and the last transcript.
C2_FallbackInvokedOnInvalid ==
    (TurnHandled /\ lastRaw # << >> /\ ~ValidTurn(lastRaw))
        => fallbackCalls =
             << [transcript |-> last_transcript, raw |-> lastRaw] >>

\* call c of process invoked the fallback, which returned a schema-valid
\* object, and has ended
RepairedValid(c) ==
    /\ p_pc[c] \in { "returned", "raised" }
    /\ ~ValidTurn(p_raw[c])
    /\ p_fallbacks[c] > 0
    /\ fallback(p_transcript[c], p_raw[c], p_reply[c]).success
    /\ SchemaValid(fallback(p_transcript[c], p_raw[c], p_reply[c]).fixed)

\* C3: when validation fails and the fallback returns a valid corrected object,
\* process returns without raising, its payload is the repaired object and it
\* dispatches exactly once, the repaired command.
C3_RepairedDispatchedOnce ==
    \A c \in Calls :
      (RepairedValid(c) /\ p_dispatcher # "None")
        => /\ p_pc[c] = "returned"
           /\ p_parsed[c] = fallback(p_transcript[c], p_raw[c], p_reply[c]).fixed
           /\ dispatched[c] =
                << Get(fallback(p_transcript[c], p_raw[c], p_reply[c]).fixed,
                       "command") >>

\* C4: a turn whose content fails validation and is not repaired is never
\* published, and the buffer is empty once its response.done has been handled.
C4_FailedTurnNotDispatched ==
    (TurnHandled /\ lastRaw # << >> /\ ~ValidTurn(lastRaw) /\ fallbackCalls = << >>)
        => (calls = << >> /\ json_buffer = << >>)

\* C5: the first fragment received after a response.done was handled, whatever
\* the outcome of that handling, is appended to an empty buffer.
C5_NoCrossTurnLeak ==
    [][(resolved /\ ~resolved') => json_buffer = << >>]_vars

\* C6: every payload handed to publish_payload passes validation against the
\* command schema.
C6_PublishedIsSchemaValid ==
    \A i \in 1..Len(calls) : ValidTurn(calls[i].msg)

\* C7: at most one publish_payload invocation is made from one response.done
\* to the next, its handling included, and none before a response.done is
\* handled: fragment events alone never publish.
C7_AtMostOncePerTurn ==
    /\ Len(calls) <= 1
    /\ ~TurnHandled => calls = << >>

\* C7 witness: a turn of two fragments was resolved and published once.
C7_Witness ==
    /\ outcome = "published"
    /\ lastRaw = TextCommand
    /\ Len(calls) = 1
    /\ calls[1].msg = TextCommand

\* C8: a response.done received while the buffer is empty is reported as an
\* empty turn, publishes nothing, calls no fallback and leaves the buffer empty.
C8_EmptyTurn ==
    (TurnHandled /\ lastRaw = << >>)
        => /\ outcome = "empty"
           /\ calls = << >>
           /\ fallbackCalls = << >>
           /\ json_buffer = << >>
           /\ consumer_exc # "publish"

\* C8 witness: a response.done was handled on an empty buffer in a running session.
C8_Witness ==
    /\ TurnHandled
    /\ lastRaw = << >>
    /\ consumer = "running"

\* C9: a turn that is to be dropped (empty, malformed or schema-mismatched
\* content) does not end the consumer task: if the task has failed after such
\* a turn, the failure is the transport's.
C9_DroppedTurnKeepsSession ==
    (TurnHandled /\ ~ValidTurn(lastRaw) /\ consumer = "failed")
        => consumer_exc = "transport"

\* C10: when publish_payload raises, the error stays inside turn resolution:
\* the buffer is reset to empty and the consumer task has not failed on it.
C10_PublishErrorContained ==
    (TurnHandled /\ calls # << >> /\ calls[Len(calls)].raised)
        => (json_buffer = << >> /\ consumer_exc # "publish")


(***************************************************************************)
(* The validators (SpecValidate).                                          *)
(***************************************************************************)
Accepted(res, P) == res.valid /\ res.parsed = P

Rejected(res) == ~res.valid /\ res.parsed = PyNone

TargetOf(P) == Get(Get(P, "command"), "target")

\* C15: serialising a conforming Turn Payload and validating the text
\* succeeds and returns a value equal to the payload, with both validators.
C15_RoundTrip ==
    (v_pc = "value" /\ v_payload \in ConformingPayloads)
        => /\ Accepted(v_result, v_payload)
           /\ Accepted(v_validate, v_payload)

C15_Witness ==
    /\ v_pc = "value"
    /\ v_payload \in ConformingPayloads
    /\ Get(v_payload, "command") # PyNone
    /\ TargetOf(v_payload).k = "arr"
    /\ Len(TargetOf(v_payload).items) = 3
    /\ Accepted(v_result, v_payload)

BadArray(P) ==
    /\ Get(P, "command") # PyNone
    /\ TargetOf(P).k = "arr"
    /\ \/ Len(TargetOf(P).items) = 0
       \/ Len(TargetOf(P).items) > 3
       \/ \E i, j \in 1..Len(TargetOf(P).items) :
              i # j /\ TargetOf(P).items[i] = TargetOf(P).items[j]

\* C16: the validator rejects a command whose target is an array holding
\* duplicates, no element, or more than three elements.
C16_BadArrayRejected ==
    (v_pc = "value" /\ BadArray(v_payload))
        => /\ Rejected(v_result)
           /\ Rejected(v_validate)

C16_Witness ==
    /\ v_pc = "value"
    /\ BadArray(v_payload)
    /\ Len(TargetOf(v_payload).items) = 2
    /\ Rejected(v_result)
    /\ v_details = "Schema Validation Error"

Malformed(text) == ~Loads(text).ok

\* C17: for a text that is not well-formed JSON the validator returns a
\* failure identifying it as malformed JSON, distinct from the failure it
\* returns for a schema mismatch.
C17_MalformedDistinct ==
    (v_pc = "text" /\ Malformed(v_text))
        => /\ v_result # is_valid_command_structure(TextMismatch)
           /\ v_validate # validate(TextMismatch)


(***************************************************************************)
(* The fallback repairer (SpecParser).                                     *)
(***************************************************************************)
\* C18: a repair whose text parses as JSON but does not conform to the
\* command schema is reported by the repairer as a failure, and the
\* repairer is invoked once for the turn.
C18_RepairRevalidated ==
    \A c \in Calls :
      (/\ p_pc[c] \in { "returned", "raised" }
       /\ p_fallbacks[c] > 0
       /\ ~p_reply[c].raised
       /\ Loads(p_reply[c].content).ok
       /\ ~is_valid_command_structure(p_reply[c].content).valid)
        => /\ ~fallback(p_transcript[c], p_raw[c], p_reply[c]).success
           /\ handle_invalid_response(p_raw[c], p_transcript[c], p_reply[c]) = PyNone
           /\ p_fallbacks[c] = 1


(***************************************************************************)
(* The session: connect, close, the uplink and the event loop (Spec).      *)
(***************************************************************************)
\* C11: when one of the two tasks fails, connect cancels the other and
\* surfaces the failure: a connect() that returned normally has no failed task.
C11_FailureSurfaced ==
    connect_result = "returned"
        => /\ producer \notin { "failed", "running" }
           /\ consumer \notin { "failed", "running" }

\* C12: after a close() call on a client with an open session neither task
\* is running and the transport is closed.
C12_CloseStopsSession ==
    close_called
        => /\ producer # "running"
           /\ consumer # "running"
           /\ ws # "open"

\* the steps of the task _stream_audio
UplinkStep ==
    \/ UplinkStart
    \/ UplinkSend
    \/ UplinkTake
    \/ UplinkClosed
    \/ UplinkCommit
    \/ UplinkCancelled

\* C13: when the capture has stopped producing chunks the uplink does not
\* wait for a next chunk: with the queue drained it has a step to take, the
\* commit that ends it.
C13_UplinkEndsWithCapture ==
    (/\ producer = "running" /\ uplink_at = "get" /\ LoopFree
     /\ mic = "stopped" /\ scheduled = << >> /\ queue = << >>)
        => ENABLED UplinkStep

\* C14: while a publish of the consumer is pending and a captured chunk
\* waits, in the queue or for its put in the queue, the uplink is not blocked:
\* the step that brings the chunk to the socket, the put or the send of the
\* append frame, is enabled.
C14_UplinkNotBlocked ==
    (/\ publishing /\ producer = "running" /\ ws = "open"
     /\ (scheduled # << >> \/ queue # << >>))
        => ENABLED (QueuePut \/ UplinkSend)

\* C19: at every event the consumer is about to read, a response.done
\* included, the buffer is the concatenation, in arrival order, of the
\* fragments received since the previous response.done of the session or
\* since the session opened.
C19_BufferIsTurnText ==
    ConsumerReady => json_buffer = Flatten(turn)

\* C20: a turn that has received a fragment and gets no response.done is
\* discarded after a bounded time: the fragments do not stay in the buffer
\* for as long as the consumer runs.
C20_StalledTurnDiscarded ==
    (turn # << >> /\ json_buffer # << >> /\ consumer = "running")
        ~> (json_buffer = << >> \/ consumer # "running")


\* C23: the accumulation buffer is empty whenever the consumer task of a
\* session starts, whatever the previous connect() on the client left.
C23_BufferEmptyAtSessionStart ==
    [][(consumer # "running" /\ consumer' = "running") => json_buffer' = << >>]_vars


(***************************************************************************)
(* The frames of the uplink and the users of the websocket (Spec).         *)
(***************************************************************************)
AppendFrames(fs) == SelectSeq(fs, LAMBDA f : f.type = "append")

\* the chunks of the append frames, in the order sent
AppendChunks(fs) == [i \in 1..Len(AppendFrames(fs)) |-> AppendFrames(fs)[i].chunk]

CommitPlaces(fs) == { i \in 1..Len(fs) : fs[i].type = "commit" }

\* at most one commit frame, and no frame after it
CommitOnceAndLast(fs) ==
    /\ Cardinality(CommitPlaces(fs)) <= 1
    /\ \A i \in CommitPlaces(fs) : i = Len(fs)

UpTo(n) == [i \in 1..n |-> i]

\* the frames the uplink task wrote, in the order written
UplinkFrames(fs) == SelectSeq(fs, LAMBDA f : f.by = "uplink")

\* C21: in one uplink run at most one commit is sent and it is the last
\* frame the uplink sends, and every captured chunk is sent as exactly one
\* append frame in capture order: when the run ends, the append frames are
\* the chunks captured so far.
C21_EveryChunkSentOnce ==
    [][/\ CommitOnceAndLast(UplinkFrames(frames'))
       /\ (producer = "running" /\ producer' # "running")
             => AppendChunks(UplinkFrames(frames')) = UpTo(captured')]_vars

\* C21, as the code has it: the uplink sends at most one commit and nothing
\* after it; its append frames carry the captured chunks in capture order,
\* each once and without a gap; while the uplink is in its loop, every
\* captured chunk is sent, held in a suspended send, queued or scheduled for
\* the queue, in this order; past the loop no further append frame is sent,
\* and a chunk not sent by then stays unsent.
C21_FramesFollowCapture ==
    /\ CommitOnceAndLast(UplinkFrames(frames))
    /\ AppendChunks(UplinkFrames(frames)) = UpTo(sent)
    /\ sent <= captured
    /\ (producer = "running" /\ uplink_at \in { "start", "get", "send" })
          => AppendChunks(UplinkFrames(frames)) \o held \o queue \o scheduled
                = UpTo(captured)
    /\ uplink_at \in { "get", "commit", "end" } => held = << >>

\* the cancelled uplink has ended after it sent both chunks captured, and the
\* socket, closed by connect() in the meantime, took no commit
C21_Witness ==
    /\ producer = "cancelled"
    /\ commit = "failed"
    /\ captured = 2
    /\ UplinkFrames(frames) =
          ws_send("uplink", ws_send("uplink", << >>, append_frame(1)),
                  append_frame(2))

=============================================================================
